---- MODULE Spec2Model ----
(***************************************************************************)
(* A model of nmap2csv (src/main.go): main() reads an Nmap XML file,       *)
(* decodes it into NmapRun, and runs at most one of three aggregation and  *)
(* report pipelines (hostname, port, vendor).                              *)
(*                                                                         *)
(* Text that the program only copies and compares (addresses, vendor and   *)
(* host names, port states) is a TLA+ string.  Text that the program       *)
(* builds or takes apart (the whereport flag, the portid attribute, the    *)
(* "port/proto" key, the joined port list) is a sequence of one-character  *)
(* strings, so that Itoa, Split, TrimSpace, Join and Sprintf are modelled  *)
(* by what they do.                                                        *)
(***************************************************************************)
EXTENDS Integers, Sequences, FiniteSets, TLC

VARIABLES pc, file, showHostnames, showPorts, showVendors, outputCSV,
          wherePorts, data, nmap, results, ports, vendors,
          stdout, stderr, exitCode

vars == <<pc, file, showHostnames, showPorts, showVendors, outputCSV,
          wherePorts, data, nmap, results, ports, vendors,
          stdout, stderr, exitCode>>

(***************************************************************************)
(* Bounds of the model.                                                    *)
(***************************************************************************)
MaxHosts == 2
MaxPorts == 2
MaxAddrs == 2
MaxHostnames == 2

(***************************************************************************)
(* strconv, strings and fmt helpers.                                       *)
(***************************************************************************)
Digits == <<"0", "1", "2", "3", "4", "5", "6", "7", "8", "9">>

RECURSIVE ItoaNat(_)
ItoaNat(n) == IF n < 10 THEN <<Digits[n + 1]>>
              ELSE ItoaNat(n \div 10) \o <<Digits[(n % 10) + 1]>>

\* strconv.Itoa: the decimal text of an int, "-" first when negative.
Itoa(n) == IF n < 0 THEN <<"-">> \o ItoaNat(0 - n) ELSE ItoaNat(n)

DigitVal(c) == CHOOSE d \in 0..9 : Digits[d + 1] = c

IsDigit(c) == \E d \in 0..9 : Digits[d + 1] = c

RECURSIVE DigitsVal(_, _)
DigitsVal(s, acc) == IF s = <<>> THEN acc
                     ELSE DigitsVal(Tail(s), acc * 10 + DigitVal(Head(s)))

\* The code points unicode.IsSpace accepts.  A code point with no escape in a
\* TLA+ string is written as its name; like every character of the model it
\* is one element of the text.
UnicodeSpaces ==
    {" ", "\t", "\n", "\r", "\f", "U+000B", "U+0085", "U+00A0", "U+1680",
     "U+2000", "U+2001", "U+2002", "U+2003", "U+2004", "U+2005", "U+2006",
     "U+2007", "U+2008", "U+2009", "U+200A", "U+2028", "U+2029", "U+202F",
     "U+205F", "U+3000"}

IsSpace(c) == c \in UnicodeSpaces

RECURSIVE TrimLeft(_)
TrimLeft(s) == IF s # <<>> /\ IsSpace(Head(s)) THEN TrimLeft(Tail(s)) ELSE s

RECURSIVE TrimRight(_)
TrimRight(s) == IF s # <<>> /\ IsSpace(s[Len(s)])
                THEN TrimRight(SubSeq(s, 1, Len(s) - 1)) ELSE s

\* strings.TrimSpace
TrimSpace(s) == TrimRight(TrimLeft(s))

\* strings.Split(s, sep) for a one-character sep: always at least one piece,
\* Split("", ",") is [""].
RECURSIVE SplitFrom(_, _, _)
SplitFrom(s, sep, cur) ==
    IF s = <<>> THEN <<cur>>
    ELSE IF Head(s) = sep THEN <<cur>> \o SplitFrom(Tail(s), sep, <<>>)
    ELSE SplitFrom(Tail(s), sep, Append(cur, Head(s)))

Split(s, sep) == SplitFrom(s, sep, <<>>)

\* strings.Join(elems, sep)
RECURSIVE Join(_, _)
Join(elems, sep) ==
    IF elems = <<>> THEN <<>>
    ELSE IF Len(elems) = 1 THEN elems[1]
    ELSE elems[1] \o <<sep>> \o Join(Tail(elems), sep)

\* The attribute text of an int field as encoding/xml reads it: empty text is
\* 0, otherwise strconv.ParseInt(strings.TrimSpace(text), 10, 64) must
\* succeed: an optional sign, then decimal digits, the value within int64.
ParseIntBody(s) == IF s # <<>> /\ Head(s) \in {"+", "-"} THEN Tail(s) ELSE s

MaxInt64Digits == <<"9", "2", "2", "3", "3", "7", "2", "0", "3", "6",
                    "8", "5", "4", "7", "7", "5", "8", "0", "7">>

MinInt64Digits == <<"9", "2", "2", "3", "3", "7", "2", "0", "3", "6",
                    "8", "5", "4", "7", "7", "5", "8", "0", "8">>

RECURSIVE StripZeros(_)
StripZeros(b) == IF Len(b) > 1 /\ Head(b) = "0" THEN StripZeros(Tail(b)) ELSE b

\* a <= b for two digit texts of the same length.
RECURSIVE DigitsLeq(_, _)
DigitsLeq(a, b) ==
    IF a = <<>> THEN TRUE
    ELSE IF DigitVal(Head(a)) < DigitVal(Head(b)) THEN TRUE
    ELSE IF DigitVal(Head(a)) > DigitVal(Head(b)) THEN FALSE
    ELSE DigitsLeq(Tail(a), Tail(b))

\* ParseInt's range error, decided on the digits: the value is never computed
\* when it does not fit.
InInt64(negative, b) ==
    LET z == StripZeros(b)
        limit == IF negative THEN MinInt64Digits ELSE MaxInt64Digits
    IN  \/ Len(z) < Len(limit)
        \/ Len(z) = Len(limit) /\ DigitsLeq(z, limit)

ParseIntOk(s) ==
    LET t == TrimSpace(s)
        b == ParseIntBody(t)
    IN  \/ s = <<>>
        \/ /\ b # <<>>
           /\ \A i \in 1..Len(b) : IsDigit(b[i])
           /\ InInt64(Head(t) = "-", b)

\* The value read; the documents of the model keep it within the integers
\* the checker computes with.
ParseIntVal(s) ==
    LET t == TrimSpace(s)
        b == ParseIntBody(t)
    IN  IF s = <<>> THEN 0
        ELSE IF Head(t) = "-" THEN 0 - DigitsVal(b, 0)
        ELSE DigitsVal(b, 0)

(***************************************************************************)
(* The scan document: the XML file's content, and NmapRun after decoding.  *)
(***************************************************************************)
Address(addr, addrtype, vendor) ==
    [Addr |-> addr, AddrType |-> addrtype, Vendor |-> vendor]

Hostname(name) == [Name |-> name]

\* A <port> element of the file: portid is still attribute text.
PortElem(protocol, portid, state, service) ==
    [Protocol |-> protocol, PortID |-> portid, State |-> state, Service |-> service]

\* A decoded Port: PortID is an int, State and Service are nested structs.
Port(protocol, portid, state, service) ==
    [Protocol |-> protocol, PortID |-> portid,
     State |-> [State |-> state], Service |-> [Name |-> service]]

Host(addresses, hostnames, portlist) ==
    [Addresses |-> addresses, Hostnames |-> hostnames, Ports |-> portlist]

NmapRun(hosts) == [Hosts |-> hosts]

\* xml.Unmarshal succeeds on a well-formed document all of whose portid
\* attributes read as an int.
UnmarshalOk(d) ==
    /\ d.kind = "xml"
    /\ \A i \in 1..Len(d.hosts) : \A j \in 1..Len(d.hosts[i].Ports) :
           ParseIntOk(d.hosts[i].Ports[j].PortID)

Unmarshal(d) ==
    NmapRun([i \in 1..Len(d.hosts) |->
        Host(d.hosts[i].Addresses, d.hosts[i].Hostnames,
             [j \in 1..Len(d.hosts[i].Ports) |->
                 LET e == d.hosts[i].Ports[j]
                 IN  Port(e.Protocol, ParseIntVal(e.PortID), e.State, e.Service)])])

(***************************************************************************)
(* Mode 1: -hostname -whereport (main.go 164-233).                         *)
(***************************************************************************)
HostInfo(hostname, ipv4, mac, vendor, countOpen, portsField) ==
    [Hostname |-> hostname, IPv4 |-> ipv4, MAC |-> mac, Vendor |-> vendor,
     CountOpen |-> countOpen, Ports |-> portsField]

\* Mutant of ShowAllPort: the test made on the split pieces, of which there is
\* always at least one.
ShowAllPortOfPieces(w) == Len(Split(w, ",")) = 0

ShowAllPort(w) == Len(w) = 0

\* portSet[strings.TrimSpace(p)] = true for every piece of the flag.
PortSet(w) == LET pieces == Split(w, ",")
              IN  {TrimSpace(pieces[i]) : i \in 1..Len(pieces)}

FirstHostname(h) == IF Len(h.Hostnames) > 0 THEN h.Hostnames[1].Name ELSE ""

\* Mutant of AddressStep: the first address of a type is kept.
AddressStepFirstWins(acc, a) ==
    LET acc1 == IF a.AddrType = "ipv4" /\ acc.ipv4 = ""
                THEN [acc EXCEPT !.ipv4 = a.Addr] ELSE acc
    IN  IF a.AddrType = "mac" /\ acc.mac = ""
        THEN [acc1 EXCEPT !.mac = a.Addr, !.vendor = a.Vendor]
        ELSE acc1

\* One iteration of the address loop: acc is (ipv4, mac, vendor).
AddressStep(acc, a) ==
    LET acc1 == IF a.AddrType = "ipv4" THEN [acc EXCEPT !.ipv4 = a.Addr] ELSE acc
    IN  IF a.AddrType = "mac"
        THEN [acc1 EXCEPT !.mac = a.Addr, !.vendor = a.Vendor]
        ELSE acc1

RECURSIVE AddressLoop(_, _)
AddressLoop(addrs, acc) ==
    IF addrs = <<>> THEN acc
    ELSE AddressLoop(Tail(addrs), AddressStep(acc, Head(addrs)))

\* Mutant of PortStep: only the listed ports are counted.
PortStepCountListed(acc, p, showAllPort, portSet) ==
    IF p.State.State = "open" /\ (showAllPort \/ Itoa(p.PortID) \in portSet)
    THEN [acc EXCEPT !.countOpen = @ + 1, !.match = TRUE,
                     !.openPort = Append(@, Itoa(p.PortID))]
    ELSE acc

\* One iteration of the port loop: acc is (countOpen, match, openPort).
PortStep(acc, p, showAllPort, portSet) ==
    IF p.State.State = "open"
    THEN LET acc1 == [acc EXCEPT !.countOpen = @ + 1]
         IN  IF showAllPort \/ Itoa(p.PortID) \in portSet
             THEN [acc1 EXCEPT !.match = TRUE,
                               !.openPort = Append(@, Itoa(p.PortID))]
             ELSE acc1
    ELSE acc

RECURSIVE PortLoop(_, _, _, _)
PortLoop(ps, acc, showAllPort, portSet) ==
    IF ps = <<>> THEN acc
    ELSE PortLoop(Tail(ps), PortStep(acc, Head(ps), showAllPort, portSet),
                  showAllPort, portSet)

\* Mutant of HostStep: a host is reported as soon as it has an open port.
HostStepAnyOpen(res, h, showAllPort, portSet) ==
    LET a == AddressLoop(h.Addresses, [ipv4 |-> "", mac |-> "", vendor |-> ""])
        p == PortLoop(h.Ports, [countOpen |-> 0, match |-> FALSE, openPort |-> <<>>],
                      showAllPort, portSet)
    IN  IF p.countOpen > 0
        THEN Append(res, HostInfo(FirstHostname(h), a.ipv4, a.mac, a.vendor,
                                  p.countOpen, Join(p.openPort, ",")))
        ELSE res

\* The body of "for _, h := range nmap.Hosts": res with h's record appended
\* when h matched.
HostStep(res, h, showAllPort, portSet) ==
    LET a == AddressLoop(h.Addresses, [ipv4 |-> "", mac |-> "", vendor |-> ""])
        p == PortLoop(h.Ports, [countOpen |-> 0, match |-> FALSE, openPort |-> <<>>],
                      showAllPort, portSet)
    IN  IF p.match
        THEN Append(res, HostInfo(FirstHostname(h), a.ipv4, a.mac, a.vendor,
                                  p.countOpen, Join(p.openPort, ",")))
        ELSE res

RECURSIVE HostLoop(_, _, _, _)
HostLoop(hosts, res, showAllPort, portSet) ==
    IF hosts = <<>> THEN res
    ELSE HostLoop(Tail(hosts), HostStep(res, Head(hosts), showAllPort, portSet),
                  showAllPort, portSet)

\* results as it stands before the sort.
HostnameAggregate(run, w) == HostLoop(run.Hosts, <<>>, ShowAllPort(w), PortSet(w))

(***************************************************************************)
(* sort.Slice(x, less) with less(i, j) = x[i].field > x[j].field.  The     *)
(* result is a permutation of x in which no element is less than one       *)
(* before it; sort.Slice does not promise to keep equal elements in their  *)
(* original order, so every such permutation is a possible result.         *)
(***************************************************************************)
SortSlice(x, field) ==
    {[i \in 1..Len(x) |-> x[q[i]]] : q \in
        {q \in Permutations(1..Len(x)) :
            \A i, j \in 1..Len(x) : i < j => ~(x[q[j]][field] > x[q[i]][field])}}

(***************************************************************************)
(* "for k, v := range m" over a Go map visits every entry once, in an      *)
(* order the language leaves unspecified: every enumeration of the keys.   *)
(***************************************************************************)
MapRange(m) ==
    LET n == Cardinality(DOMAIN m)
    IN  {ks \in [1..n -> DOMAIN m] : \A i, j \in 1..n : ks[i] = ks[j] => i = j}

(***************************************************************************)
(* Mode 2: -port (main.go 236-276).                                        *)
(***************************************************************************)
PortInfo(key, service, count) == [Key |-> key, Service |-> service, Count |-> count]

\* fmt.Sprintf("%d/%s", p.PortID, p.Protocol)
PortKey(p) == Itoa(p.PortID) \o <<"/">> \o p.Protocol

\* The body of the inner loop: the map after port p of some host.
PortMapStep(m, p) ==
    IF p.State.State = "open"
    THEN LET key == PortKey(p)
             m1 == IF key \in DOMAIN m THEN m
                   ELSE m @@ (key :> PortInfo(key, p.Service.Name, 0))
         IN  [m1 EXCEPT ![key].Count = @ + 1]
    ELSE m

RECURSIVE PortMapPorts(_, _)
PortMapPorts(m, ps) ==
    IF ps = <<>> THEN m ELSE PortMapPorts(PortMapStep(m, Head(ps)), Tail(ps))

RECURSIVE PortMapHosts(_, _)
PortMapHosts(m, hosts) ==
    IF hosts = <<>> THEN m
    ELSE PortMapHosts(PortMapPorts(m, Head(hosts).Ports), Tail(hosts))

PortAggregate(run) == PortMapHosts(<<>>, run.Hosts)

(***************************************************************************)
(* Mode 3: -vendor (main.go 279-314).                                      *)
(***************************************************************************)
VendorInfo(name, count) == [Name |-> name, Count |-> count]

\* Mutant of VendorMapStep: the address type is not looked at.
VendorMapStepAnyType(m, a) ==
    IF a.Vendor \in DOMAIN m THEN [m EXCEPT ![a.Vendor] = @ + 1]
    ELSE m @@ (a.Vendor :> 1)

\* vendorMap[a.Vendor]++ for a mac address.
VendorMapStep(m, a) ==
    IF a.AddrType = "mac"
    THEN IF a.Vendor \in DOMAIN m THEN [m EXCEPT ![a.Vendor] = @ + 1]
         ELSE m @@ (a.Vendor :> 1)
    ELSE m

RECURSIVE VendorMapAddrs(_, _)
VendorMapAddrs(m, addrs) ==
    IF addrs = <<>> THEN m ELSE VendorMapAddrs(VendorMapStep(m, Head(addrs)), Tail(addrs))

RECURSIVE VendorMapHosts(_, _)
VendorMapHosts(m, hosts) ==
    IF hosts = <<>> THEN m
    ELSE VendorMapHosts(VendorMapAddrs(m, Head(hosts).Addresses), Tail(hosts))

VendorAggregate(run) == VendorMapHosts(<<>>, run.Hosts)

(***************************************************************************)
(* The report: the lines written to standard output.  A line is its kind   *)
(* (header, the table's rule of dashes, or a data row) and its columns.    *)
(***************************************************************************)
Line(kind, cols) == [kind |-> kind, cols |-> cols]

HostnameHeader == <<"Hostname", "IPv4", "MAC", "Vendor", "CountOpenPort", "Ports">>

PortHeader == <<"Count", "Port/Proto", "ServiceName">>

VendorHeader == <<"Count", "VendorName">>

\* The table's line of dashes under each header.
HostnameRule == <<"--------", "----", "---", "------", "-------------", "-----">>

PortRule == <<"-----", "----------", "-----------">>

VendorRule == <<"-----", "----------">>

HostnameRow(r) == <<r.Hostname, r.IPv4, r.MAC, r.Vendor, Itoa(r.CountOpen), r.Ports>>

PortRow(v) == <<Itoa(v.Count), v.Key, v.Service>>

VendorRow(v) == <<Itoa(v.Count), v.Name>>

\* CSV: the header, then one line per row.  Table: the header, the rule,
\* then one line per row.  Both are flushed before main returns.
Report(csv, header, rule, rows) ==
    <<Line("header", header)>>
    \o (IF csv THEN <<>> ELSE <<Line("rule", rule)>>)
    \o [i \in 1..Len(rows) |-> Line("row", rows[i])]

\* Mutant of Mode: the flags tested in the opposite order.
ModeVendorFirst(h, p, v) == IF v THEN "vendor"
                            ELSE IF p THEN "port"
                            ELSE IF h THEN "hostname"
                            ELSE "none"

(***************************************************************************)
(* main's chain of "if *flag { ...; return }": the first set flag wins.    *)
(***************************************************************************)
Mode(h, p, v) == IF h THEN "hostname"
                 ELSE IF p THEN "port"
                 ELSE IF v THEN "vendor"
                 ELSE "none"

(***************************************************************************)
(* Inputs: the files and flag values the runs are drawn from.              *)
(***************************************************************************)
tcp == <<"t", "c", "p">>

udp == <<"u", "d", "p">>

SeqsUpTo(S, n) == UNION {[1..k -> S] : k \in 0..n}

MissingFile == [kind |-> "missing", hosts |-> <<>>]

MalformedFile == [kind |-> "malformed", hosts |-> <<>>]

XmlFile(hosts) == [kind |-> "xml", hosts |-> hosts]

IPOf(i) == "10.0.0." \o ToString(i)

BaseHost ==
    Host(<<Address("10.0.0.1", "ipv4", ""), Address("00:0C:29:00:00:01", "mac", "VMware")>>,
         <<Hostname("server01.local")>>,
         <<PortElem(tcp, <<"2", "2">>, "open", "ssh"),
           PortElem(tcp, <<"0", "8", "0", "U+00A0">>, "closed", "http")>>)

\* A host whose portid attribute is not a number: the decode fails.
BadPortHost ==
    Host(<<Address("10.0.0.9", "ipv4", "")>>, <<>>,
         <<PortElem(tcp, <<"8", "o">>, "open", "http")>>)

\* A host whose portid is 2^63, one more than an int holds: the decode fails.
HugePortHost ==
    Host(<<Address("10.0.0.8", "ipv4", "")>>, <<>>,
         <<PortElem(tcp, Append(SubSeq(MaxInt64Digits, 1, Len(MaxInt64Digits) - 1), "8"),
                    "open", "http")>>)

BaseFiles == {MissingFile, MalformedFile, XmlFile(<<>>), XmlFile(<<BaseHost>>),
              XmlFile(<<BadPortHost>>), XmlFile(<<HugePortHost>>)}

BaseWheres == {<<>>, <<"2", "2">>, <<" ">>, <<"2", "2", "\f">>}

\* Hostname mode: hosts told apart by their IPv4 address, each with up to
\* MaxPorts ports.
HostPortPool == {PortElem(tcp, <<"2", "2">>, "open", "ssh"),
                 PortElem(tcp, <<"8", "0">>, "open", "http"),
                 PortElem(tcp, <<"2", "2">>, "closed", "ssh")}

HostFiles ==
    {XmlFile([i \in 1..Len(f) |-> Host(<<Address(IPOf(i), "ipv4", "")>>, <<>>, f[i])]) :
        f \in SeqsUpTo(SeqsUpTo(HostPortPool, MaxPorts), MaxHosts)}

HostWheres == {<<>>, <<"2", "2">>, <<"8", "0", ",", " ", "2", "2">>}

\* Hostname mode's address resolution: one host with an open port, up to
\* MaxAddrs addresses and up to MaxHostnames hostnames.
AddrPool == {Address("10.0.0.1", "ipv4", ""), Address("10.0.0.2", "ipv4", ""),
             Address("00:0C:29:00:00:01", "mac", "VMware"),
             Address("E4:54:E8:00:00:02", "mac", "Intel Corporate"),
             Address("fe80::1", "ipv6", "")}

NamePool == {Hostname("server01.local"), Hostname("workstation")}

AddrFiles ==
    {XmlFile(<<Host(a, n, <<PortElem(tcp, <<"2", "2">>, "open", "ssh")>>)>>) :
        a \in SeqsUpTo(AddrPool, MaxAddrs), n \in SeqsUpTo(NamePool, MaxHostnames)}

\* Port mode: every host has up to MaxPorts ports.
PortPool == {PortElem(tcp, <<"2", "2">>, "open", "ssh"),
             PortElem(udp, <<"2", "2">>, "open", ""),
             PortElem(tcp, <<"2", "2">>, "closed", "ssh")}

PortFiles ==
    {XmlFile([i \in 1..Len(f) |-> Host(<<Address(IPOf(i), "ipv4", "")>>, <<>>, f[i])]) :
        f \in SeqsUpTo(SeqsUpTo(PortPool, MaxPorts), MaxHosts)}

\* Vendor mode: every host has up to MaxAddrs addresses.
VendorPool == {Address("E4:54:E8:00:00:02", "mac", "Intel Corporate"),
               Address("00:00:00:00:00:03", "mac", ""),
               Address("10.0.0.1", "ipv4", "Intel Corporate")}

VendorFiles ==
    {XmlFile([i \in 1..Len(f) |-> Host(f[i], <<>>, <<>>)]) :
        f \in SeqsUpTo(SeqsUpTo(VendorPool, MaxAddrs), MaxHosts)}

(***************************************************************************)
(* The state after flag.Parse(): nothing read, nothing written.            *)
(***************************************************************************)
InitWith(files, hs, ps, vs, csvs, wheres) ==
    /\ pc = "start"
    /\ file \in files
    /\ showHostnames \in hs
    /\ showPorts \in ps
    /\ showVendors \in vs
    /\ outputCSV \in csvs
    /\ wherePorts \in wheres
    /\ data = [kind |-> "none", hosts |-> <<>>]
    /\ nmap = NmapRun(<<>>)
    /\ results = <<>>
    /\ ports = <<>>
    /\ vendors = <<>>
    /\ stdout = <<>>
    /\ stderr = <<>>
    /\ exitCode = -1

Init == InitWith(BaseFiles, BOOLEAN, BOOLEAN, BOOLEAN, BOOLEAN, BaseWheres)

InitHostname ==
    \/ Init
    \/ InitWith(HostFiles, {TRUE}, {FALSE}, {FALSE}, {FALSE}, HostWheres)

InitAddress ==
    \/ Init
    \/ InitWith(AddrFiles, {TRUE}, {FALSE}, {FALSE}, {FALSE}, {<<>>})

InitPort ==
    \/ Init
    \/ InitWith(PortFiles, {FALSE}, {TRUE}, {FALSE}, {FALSE}, {<<>>})

InitVendor ==
    \/ Init
    \/ InitWith(VendorFiles, {FALSE}, {FALSE}, {TRUE}, {FALSE}, {<<>>})

(***************************************************************************)
(* main, step by step.                                                     *)
(***************************************************************************)
\* Mutant of Fatalf: the diagnostic is logged and main goes on.
LogPrintf(msg) ==
    /\ stderr' = Append(stderr, msg)
    /\ exitCode' = exitCode
    /\ pc' = IF pc = "start" THEN "read" ELSE "decoded"

\* log.Fatalf: the diagnostic, then os.Exit(1).
Fatalf(msg) ==
    /\ stderr' = Append(stderr, msg)
    /\ exitCode' = 1
    /\ pc' = "failed"

\* data, err := ioutil.ReadFile(*xmlFile)
ReadFile ==
    /\ pc = "start"
    /\ IF file.kind = "missing"
       THEN /\ Fatalf("Erreur lecture fichier")
            /\ UNCHANGED data
       ELSE /\ data' = file
            /\ pc' = "read"
            /\ UNCHANGED <<stderr, exitCode>>
    /\ UNCHANGED <<file, showHostnames, showPorts, showVendors, outputCSV,
                   wherePorts, nmap, results, ports, vendors, stdout>>

\* xml.Unmarshal(data, &nmap)
Decode ==
    /\ pc = "read"
    /\ IF UnmarshalOk(data)
       THEN /\ nmap' = Unmarshal(data)
            /\ pc' = "decoded"
            /\ UNCHANGED <<stderr, exitCode>>
       ELSE /\ Fatalf("Erreur parsing XML")
            /\ UNCHANGED nmap
    /\ UNCHANGED <<file, showHostnames, showPorts, showVendors, outputCSV,
                   wherePorts, data, results, ports, vendors, stdout>>

\* Mode 1: aggregate, sort, report, return.
HostnameMode ==
    /\ pc = "decoded"
    /\ Mode(showHostnames, showPorts, showVendors) = "hostname"
    /\ \E sorted \in SortSlice(HostnameAggregate(nmap, wherePorts), "CountOpen") :
          /\ results' = sorted
          /\ stdout' = stdout \o Report(outputCSV, HostnameHeader, HostnameRule,
                           [i \in 1..Len(sorted) |-> HostnameRow(sorted[i])])
    /\ pc' = "done"
    /\ exitCode' = 0
    /\ UNCHANGED <<file, showHostnames, showPorts, showVendors, outputCSV,
                   wherePorts, data, nmap, ports, vendors, stderr>>

\* Mode 2: aggregate into portMap, range over it, sort, report, return.
PortMode ==
    /\ pc = "decoded"
    /\ Mode(showHostnames, showPorts, showVendors) = "port"
    /\ LET portMap == PortAggregate(nmap)
       IN  \E ks \in MapRange(portMap) :
           \E sorted \in SortSlice([i \in 1..Len(ks) |-> portMap[ks[i]]], "Count") :
              /\ ports' = sorted
              /\ stdout' = stdout \o Report(outputCSV, PortHeader, PortRule,
                               [i \in 1..Len(sorted) |-> PortRow(sorted[i])])
    /\ pc' = "done"
    /\ exitCode' = 0
    /\ UNCHANGED <<file, showHostnames, showPorts, showVendors, outputCSV,
                   wherePorts, data, nmap, results, vendors, stderr>>

\* Mode 3: aggregate into vendorMap, range over it, sort, report, return.
VendorMode ==
    /\ pc = "decoded"
    /\ Mode(showHostnames, showPorts, showVendors) = "vendor"
    /\ LET vendorMap == VendorAggregate(nmap)
       IN  \E ks \in MapRange(vendorMap) :
           \E sorted \in SortSlice([i \in 1..Len(ks) |->
                                       VendorInfo(ks[i], vendorMap[ks[i]])], "Count") :
              /\ vendors' = sorted
              /\ stdout' = stdout \o Report(outputCSV, VendorHeader, VendorRule,
                               [i \in 1..Len(sorted) |-> VendorRow(sorted[i])])
    /\ pc' = "done"
    /\ exitCode' = 0
    /\ UNCHANGED <<file, showHostnames, showPorts, showVendors, outputCSV,
                   wherePorts, data, nmap, results, ports, stderr>>

\* No mode flag: main falls off its end.
NoMode ==
    /\ pc = "decoded"
    /\ Mode(showHostnames, showPorts, showVendors) = "none"
    /\ pc' = "done"
    /\ exitCode' = 0
    /\ UNCHANGED <<file, showHostnames, showPorts, showVendors, outputCSV,
                   wherePorts, data, nmap, results, ports, vendors, stdout, stderr>>

Next == ReadFile \/ Decode \/ HostnameMode \/ PortMode \/ VendorMode \/ NoMode

Spec == Init /\ [][Next]_vars

SpecHostname == InitHostname /\ [][Next]_vars

SpecAddress == InitAddress /\ [][Next]_vars

SpecPort == InitPort /\ [][Next]_vars

SpecVendor == InitVendor /\ [][Next]_vars

(***************************************************************************)
(* Vocabulary of the properties: what the document says, stated without    *)
(* the aggregation loops.                                                  *)
(***************************************************************************)
IsOpen(p) == p.State.State = "open"

HostnameRan == pc = "done" /\ showHostnames

PortRan == pc = "done" /\ ~showHostnames /\ showPorts

VendorRan == pc = "done" /\ ~showHostnames /\ ~showPorts /\ showVendors

\* The hosts of the document that carry the record's IPv4 address.
Owners(r) ==
    {i \in 1..Len(nmap.Hosts) :
        \E j \in 1..Len(nmap.Hosts[i].Addresses) :
            /\ nmap.Hosts[i].Addresses[j].AddrType = "ipv4"
            /\ nmap.Hosts[i].Addresses[j].Addr = r.IPv4}

OpenIdx(h) == {j \in 1..Len(h.Ports) : IsOpen(h.Ports[j])}

PassesFilter(p, w) == w = <<>> \/ Itoa(p.PortID) \in PortSet(w)

IsListed(p) == IsOpen(p) /\ PassesFilter(p, wherePorts)

\* The ids of h's open ports that pass the filter, in h's port order.
ListedIds(h) == LET sel == SelectSeq(h.Ports, IsListed)
                IN  [i \in 1..Len(sel) |-> sel[i].PortID]

\* The Ports field read back: the numbers between its commas.
FieldIds(field) == LET parts == Split(field, ",")
                   IN  [i \in 1..Len(parts) |-> ParseIntVal(parts[i])]

\* The hosts that must be reported: an open port that passes the filter.
Matching == {i \in 1..Len(nmap.Hosts) :
                \E j \in OpenIdx(nmap.Hosts[i]) : PassesFilter(nmap.Hosts[i].Ports[j], wherePorts)}

\* C2: in hostname mode every record's CountOpen is the number of its host's
\* ports in state "open", whatever the filter, and its Ports field lists, in
\* the host's port order, exactly the ids of the open ports passing the filter.
C2_CountAndPorts ==
    HostnameRan =>
        \A k \in 1..Len(results) :
            /\ Owners(results[k]) # {}
            /\ \A i \in Owners(results[k]) :
                  /\ results[k].CountOpen = Cardinality(OpenIdx(nmap.Hosts[i]))
                  /\ FieldIds(results[k].Ports) = ListedIds(nmap.Hosts[i])

\* A filtered run over a host with two open ports, one of them outside the
\* filter: the record counts both and lists one.
C2_Witness ==
    /\ HostnameRan
    /\ wherePorts = <<"2", "2">>
    /\ \E k \in 1..Len(results) :
          results[k].CountOpen = 2 /\ results[k].Ports = <<"2", "2">>

\* C3: in hostname mode a host is reported if and only if it has an open port
\* whose decimal id is in the filter set (any open port when the filter is
\* empty), and each such host is reported exactly once.
C3_EmittedIffMatched ==
    HostnameRan =>
        /\ Len(results) = Cardinality(Matching)
        /\ \A i \in Matching : \E k \in 1..Len(results) : i \in Owners(results[k])
        /\ \A k \in 1..Len(results) : Owners(results[k]) \subseteq Matching
        /\ \A k \in 1..Len(results) : Owners(results[k]) # {}

\* A filtered run that reports one host and leaves out another that has an
\* open port, but none in the filter.
C3_Witness ==
    /\ HostnameRan
    /\ wherePorts # <<>>
    /\ Len(results) = 1
    /\ \E i \in 1..Len(nmap.Hosts) :
          i \notin Matching /\ OpenIdx(nmap.Hosts[i]) # {}

\* Every open port id of the document is in the filter set of w.
CoversOpenPorts(w) ==
    \A i \in 1..Len(nmap.Hosts) : \A j \in OpenIdx(nmap.Hosts[i]) :
        Itoa(nmap.Hosts[i].Ports[j].PortID) \in PortSet(w)

\* C4: hostname mode with an empty filter and hostname mode with a filter
\* holding every open port id of the document give the same records: what a
\* run with one of the two filters reports is what the run with the other
\* filter sorts and reports.
C4_EmptyFilterIsFullFilter ==
    HostnameRan =>
        /\ (wherePorts # <<>> /\ CoversOpenPorts(wherePorts)) =>
              results \in SortSlice(HostnameAggregate(nmap, <<>>), "CountOpen")
        /\ wherePorts = <<>> =>
              \A w \in HostWheres :
                  CoversOpenPorts(w) =>
                      results \in SortSlice(HostnameAggregate(nmap, w), "CountOpen")

\* A run whose filter names both open ports of the document, with two hosts
\* reported.
C4_Witness ==
    /\ HostnameRan
    /\ wherePorts # <<>>
    /\ CoversOpenPorts(wherePorts)
    /\ Len(results) = 2
    /\ \E k \in 1..Len(results) : results[k].Ports = <<"2", "2", ",", "8", "0">>

\* C5: the hostname-mode output is ordered by non-increasing CountOpen, and
\* records with equal CountOpen keep the order of their hosts in the document.
C5_StableByCountOpen ==
    HostnameRan =>
        \A k, l \in 1..Len(results) :
            k < l =>
                /\ results[k].CountOpen >= results[l].CountOpen
                /\ results[k].CountOpen = results[l].CountOpen =>
                      \A i \in Owners(results[k]) : \A j \in Owners(results[l]) : i < j

\* The open ports of the document in input order, host after host.
RECURSIVE OpenPortsOf(_)
OpenPortsOf(hosts) ==
    IF hosts = <<>> THEN <<>>
    ELSE SelectSeq(Head(hosts).Ports, IsOpen) \o OpenPortsOf(Tail(hosts))

\* The hosts with a port of this key in state "open".
HostsWithOpen(key) ==
    {i \in 1..Len(nmap.Hosts) :
        \E j \in OpenIdx(nmap.Hosts[i]) : PortKey(nmap.Hosts[i].Ports[j]) = key}

\* Where the key first occurs among the open ports of the document.
FirstPortPos(key) ==
    LET all == OpenPortsOf(nmap.Hosts)
    IN  CHOOSE n \in 1..Len(all) :
            /\ PortKey(all[n]) = key
            /\ \A m \in 1..(n - 1) : PortKey(all[m]) # key

\* C1: in port mode every record's Count is the number of hosts that have a
\* port with that portid and protocol in state "open"; a host listing the
\* port as open more than once counts once.
C1_CountIsHosts ==
    PortRan =>
        \A k \in 1..Len(ports) :
            ports[k].Count = Cardinality(HostsWithOpen(ports[k].Key))

\* The mac addresses of the document in input order, host after host.
IsMac(a) == a.AddrType = "mac"

RECURSIVE MacsOf(_)
MacsOf(hosts) ==
    IF hosts = <<>> THEN <<>>
    ELSE SelectSeq(Head(hosts).Addresses, IsMac) \o MacsOf(Tail(hosts))

FirstVendorPos(name) ==
    LET all == MacsOf(nmap.Hosts)
    IN  CHOOSE n \in 1..Len(all) :
            /\ all[n].Vendor = name
            /\ \A m \in 1..(n - 1) : all[m].Vendor # name

\* C6: in port mode and in vendor mode the output is ordered by non-increasing
\* Count, and records with equal Count come in the order in which their key
\* first occurs in the input.
C6_TiesInFirstSeenOrder ==
    /\ PortRan =>
          \A k, l \in 1..Len(ports) :
              k < l =>
                  /\ ports[k].Count >= ports[l].Count
                  /\ ports[k].Count = ports[l].Count =>
                        FirstPortPos(ports[k].Key) < FirstPortPos(ports[l].Key)
    /\ VendorRan =>
          \A k, l \in 1..Len(vendors) :
              k < l =>
                  /\ vendors[k].Count >= vendors[l].Count
                  /\ vendors[k].Count = vendors[l].Count =>
                        FirstVendorPos(vendors[k].Name) < FirstVendorPos(vendors[l].Name)

\* C7: in vendor mode there is exactly one record per distinct vendor string
\* found on a mac address, the empty string included; its Count is the number
\* of mac addresses of the document with that vendor string; addresses of
\* another type add nothing.
C7_VendorBuckets ==
    VendorRan =>
        LET macs == MacsOf(nmap.Hosts)
            names == {macs[n].Vendor : n \in 1..Len(macs)}
        IN  /\ {vendors[k].Name : k \in 1..Len(vendors)} = names
            /\ Len(vendors) = Cardinality(names)
            /\ \A k \in 1..Len(vendors) :
                  vendors[k].Count =
                      Cardinality({n \in 1..Len(macs) : macs[n].Vendor = vendors[k].Name})

\* Two mac addresses without a vendor and an ipv4 address that carries one:
\* the only record is the empty name, with Count 2.
C7_Witness ==
    /\ VendorRan
    /\ vendors = <<VendorInfo("", 2)>>
    /\ \E i \in 1..Len(nmap.Hosts) : \E j \in 1..Len(nmap.Hosts[i].Addresses) :
          /\ nmap.Hosts[i].Addresses[j].AddrType # "mac"
          /\ nmap.Hosts[i].Addresses[j].Vendor # ""

\* The header lines written so far.
IsHeader(l) == l.kind = "header"

Headers == SelectSeq(stdout, IsHeader)

\* C8: whatever the mode flags, at most one pipeline runs after a successful
\* decode: hostname mode if its flag is set, otherwise port mode if its flag is
\* set, otherwise vendor mode if its flag is set; with no mode flag nothing is
\* aggregated and nothing, not even a header, is written.
C8_OnePipelineByPrecedence ==
    pc = "done" =>
        /\ showHostnames =>
              /\ Headers = <<Line("header", HostnameHeader)>>
              /\ ports = <<>> /\ vendors = <<>>
        /\ (~showHostnames /\ showPorts) =>
              /\ Headers = <<Line("header", PortHeader)>>
              /\ results = <<>> /\ vendors = <<>>
        /\ (~showHostnames /\ ~showPorts /\ showVendors) =>
              /\ Headers = <<Line("header", VendorHeader)>>
              /\ results = <<>> /\ ports = <<>>
        /\ (~showHostnames /\ ~showPorts /\ ~showVendors) =>
              /\ stdout = <<>>
              /\ results = <<>> /\ ports = <<>> /\ vendors = <<>>

\* All three flags set on a document with an open port and a mac address:
\* only the hostname report, with its row, is written.
C8_Witness ==
    /\ pc = "done"
    /\ showHostnames /\ showPorts /\ showVendors
    /\ Len(results) = 1
    /\ Len(stdout) >= 2
    /\ \E i \in 1..Len(nmap.Hosts) : \E j \in 1..Len(nmap.Hosts[i].Addresses) :
          IsMac(nmap.Hosts[i].Addresses[j])

\* The files that cannot be read or decoded: no file, no well-formed XML, or
\* a portid attribute that is not an int (not a number, or 2^63).
BadInput(f) ==
    \/ f.kind # "xml"
    \/ \E i \in 1..Len(f.hosts) : \E j \in 1..Len(f.hosts[i].Ports) :
          f.hosts[i].Ports[j].PortID \in
              {<<"8", "o">>,
               <<"9", "2", "2", "3", "3", "7", "2", "0", "3", "6",
                 "8", "5", "4", "7", "7", "5", "8", "0", "8">>}

C9_Step ==
    /\ pc # "failed"
    /\ (pc = "start" /\ file.kind = "missing") => pc' = "failed"
    /\ (pc = "read" /\ BadInput(file)) => pc' = "failed"
    /\ pc' = "failed" =>
          /\ BadInput(file)
          /\ exitCode' = 1
          /\ Len(stderr') = 1
          /\ stdout' = <<>>
          /\ results' = <<>> /\ ports' = <<>> /\ vendors' = <<>>
    /\ pc' \in {"decoded", "done"} => (~BadInput(file) /\ exitCode' # 1 /\ stderr' = <<>>)

\* C9: when reading or decoding the input fails, the process ends at once in
\* the failed state, exit status 1 and one diagnostic, with no aggregation
\* done and nothing written to the report, whatever the mode flags; the
\* failed state is final; and after a successful decode no step fails.
C9_FailFast == [][C9_Step]_vars

\* A decode failure with the hostname flag set.
C9_Witness ==
    /\ pc = "failed"
    /\ data.kind = "xml"
    /\ showHostnames
    /\ exitCode = 1

\* The last address of the given type in h's list, or none.
LastOfType(h, t) ==
    LET idx == {j \in 1..Len(h.Addresses) : h.Addresses[j].AddrType = t}
    IN  IF idx = {} THEN Address("", t, "")
        ELSE h.Addresses[CHOOSE j \in idx : \A m \in idx : m <= j]

\* C10: in hostname mode a record's IPv4 is the Addr of its host's last ipv4
\* address (empty if none), its MAC and Vendor are the Addr and the Vendor of
\* the host's last mac address (both empty if none), and its Hostname is the
\* host's first hostname (empty if none).
C10_LastAddressWins ==
    HostnameRan =>
        \A k \in 1..Len(results) :
            \E i \in 1..Len(nmap.Hosts) :
                LET h == nmap.Hosts[i]
                IN  /\ results[k].IPv4 = LastOfType(h, "ipv4").Addr
                    /\ results[k].MAC = LastOfType(h, "mac").Addr
                    /\ results[k].Vendor = LastOfType(h, "mac").Vendor
                    /\ results[k].Hostname =
                          (IF h.Hostnames = <<>> THEN "" ELSE h.Hostnames[1].Name)
                    /\ results[k].CountOpen = Cardinality(OpenIdx(h))

\* A host with two mac addresses of different vendors and two hostnames: the
\* record has the second mac with its vendor and the first hostname.
C10_Witness ==
    /\ HostnameRan
    /\ Len(nmap.Hosts) = 1
    /\ Len(nmap.Hosts[1].Hostnames) = 2
    /\ nmap.Hosts[1].Hostnames[1] # nmap.Hosts[1].Hostnames[2]
    /\ Len(nmap.Hosts[1].Addresses) = 2
    /\ nmap.Hosts[1].Addresses[1].Vendor = "VMware"
    /\ Len(results) = 1
    /\ results[1].Vendor = "Intel Corporate"
    /\ results[1].MAC = "E4:54:E8:00:00:02"

====
